---- MODULE Spec2Model ----
(***************************************************************************)
(* A model of src/src/robot_simulation.py: the Robot facade, its pose      *)
(* integrator thread (__position_updater), its top-view thread, and the    *)
(* caller's thread invoking set_motors_speeds, get_camera_view and __del__.*)
(*                                                                         *)
(* Numbers are fixed point.  Lengths are millimetres (the source's         *)
(* centimetres times MmPerCm), times are milliseconds, pixels are pixels,  *)
(* and angles are multiples of pi/4 (Pi == 4 units).  sin and cos are the  *)
(* table of the eight grid angles scaled by TrigScale; arctan returns the  *)
(* nearest grid angle.  Every float-to-int conversion of the source        *)
(* (int(...)) truncates toward zero, as Python's does.                     *)
(***************************************************************************)
EXTENDS Integers, Sequences, FiniteSets, TLC

(***************************************************************************)
(* Bounds of the model.                                                    *)
(***************************************************************************)
\* the integrator's tick counter c is capped
MaxTicks == 4
\* the loaded map's raster, in pixels (an input: the image file)
MapWidthPx == 170
MapHeightPx == 170

(***************************************************************************)
(* Program constants.                                                      *)
(***************************************************************************)
DEFAULT_CAMERA_X_DIMENSION == 10
DEFAULT_CAMERA_Y_DIMENSION == 10
DEFAULT_CAMERA_X_OFFSET == 5
DEFAULT_ROBOT_WIGHT == 17
DEFAULT_PPI == 17
DEFAULT_MAX_SPEED == 20
DEFAULT_START_POS_X == 20
DEFAULT_START_POS_Y == 20
DEFAULT_OUTPUT_RESOLUTION_X == 64
DEFAULT_OUTPUT_RESOLUTION_Y == 64
\* the largest magnitude of a motor setpoint
MaxMotorSpeed == 255

(***************************************************************************)
(* Units of the fixed-point representation.                                *)
(***************************************************************************)
\* np.pi, in angle units (one unit is pi/4)
Pi == 4
\* sin and cos values are held times TrigScale
TrigScale == 1000
MmPerCm == 10
MsPerSecond == 1000
\* 2.54 cm to the inch, in tenths of a millimetre
TenthMmPerInch == 254

TwoPi == 2 * Pi
HalfPi == Pi \div 2
\* DEFAULT_START_ANGLE = -np.pi * 3 / 4
DEFAULT_START_ANGLE == -((Pi * 3) \div 4)

Abs(v) == IF v < 0 THEN -v ELSE v

\* a / b rounded toward zero (b > 0): Python's int() of a float quotient
TruncDiv(a, b) == IF a >= 0 THEN a \div b ELSE -((-a) \div b)

\* sin of the grid angles 0, pi/4, ..., 7*pi/4, times TrigScale
SinTable == <<0, 707, 1000, 707, 0, -707, -1000, -707>>

np_sin(angle) == SinTable[(angle % TwoPi) + 1]

np_cos(angle) == np_sin(angle + HalfPi)

\* np.arctan(num / den), den # 0: the grid angle nearest the arc tangent, in
\* [-pi/2, pi/2]; tan(pi/8) = 0.414 and tan(3*pi/8) = 2.414 separate the grid
\* angles (a float arctan of a huge ratio is pi/2 itself, too)
np_arctan(num, den) ==
    LET n == Abs(num)
        d == Abs(den)
        mag == IF n * 1000 < 414 * d THEN 0
               ELSE IF n * 1000 < 2414 * d THEN 1
               ELSE 2
    IN  IF (num < 0) # (den < 0) THEN -mag ELSE mag

np_clip(v, lo, hi) == IF v < lo THEN lo ELSE IF v > hi THEN hi ELSE v

\* sum to an x value a vector and return the new x value
vec_sum_x(x, angle, module) == x - TruncDiv(np_sin(angle) * module, TrigScale)

\* sum to an y value a vector and return the new y value
vec_sum_y(y, angle, module) == y - TruncDiv(np_cos(angle) * module, TrigScale)

\* inches = float(pixel) / ppi ; cm = inches * 2.54   (result in mm)
pixel_to_cm(pixel) == TruncDiv(pixel * TenthMmPerInch, DEFAULT_PPI * 10)

\* inches = cm / 2.54 ; pixel = int(inches * ppi)      (argument in mm)
cm_to_pixel(mm) == TruncDiv(mm * 10 * DEFAULT_PPI, TenthMmPerInch)

\* speed / 255.0 * actual_time_stamp * max_speed: the length a track moves in
\* one tick, in mm, for dt in ms
Displacement(speed, dt) ==
    TruncDiv(speed * dt * DEFAULT_MAX_SPEED * MmPerCm, MaxMotorSpeed * MsPerSecond)

\* "keep it in range": while angle < 0 or angle > 2*pi: add or subtract 2*pi
RECURSIVE KeepInRange(_)
KeepInRange(angle) ==
    IF angle < 0 THEN KeepInRange(angle + TwoPi)
    ELSE IF angle > TwoPi THEN KeepInRange(angle - TwoPi)
    ELSE angle

\* the heading recovered from the two displaced track points
NewAngle(delta_x, delta_y) ==
    IF delta_x = 0
    THEN IF delta_y >= 0 THEN HalfPi ELSE -HalfPi
    ELSE np_arctan(-delta_y, delta_x) + (IF delta_x <= 0 THEN Pi ELSE 0)


\* len(range(*slice(start, stop).indices(n))): the length of a[start:stop] for
\* a sequence of length n (a negative index counts from the end)
SliceLen(start, stop, n) ==
    LET lo == IF start < 0 THEN np_clip(start + n, 0, n) ELSE np_clip(start, 0, n)
        hi == IF stop < 0 THEN np_clip(stop + n, 0, n) ELSE np_clip(stop, 0, n)
    IN  IF hi > lo THEN hi - lo ELSE 0

\* max_pos_x = pixel_to_cm(map.shape[X]), max_pos_y = pixel_to_cm(map.shape[Y])
max_pos_x == pixel_to_cm(MapWidthPx)
max_pos_y == pixel_to_cm(MapHeightPx)
min_pos_x == 0 * MmPerCm
min_pos_y == 0 * MmPerCm

(***************************************************************************)
(* Inputs.                                                                 *)
(***************************************************************************)
\* the arguments the caller passes to set_motors_speeds
SpeedArgs == {-(MaxMotorSpeed + 1), MaxMotorSpeed, MaxMotorSpeed + 1}
\* the start_angle arguments: the default, 0 (as test() passes) and pi/2
StartAngles == {DEFAULT_START_ANGLE, 0, HalfPi}
\* the wall-clock time one pass of the loop takes (computation plus sleep)
TickDurations == {850}

VARIABLES
    phase,            \* "init" inside __init__, then "constructed" or "failed"
    map_ok,           \* cv2.imread(map_path) returned an image (not None)
    sprite_ok,        \* the sprite files of __get_robot_image can be read
    top_view_enable,
    pos_x, pos_y,     \* self.__pos_x, self.__pos_y (mm)
    angle,            \* self.__angle
    speed_right, speed_left,
    thread_running,
    pcInt,            \* where the __position_updater thread is
    c,                \* its tick counter
    elapsed,          \* time.time() - input_time (ms)
    actual_time_stamp,
    right_track_x, right_track_y, left_track_x, left_track_y,
    used,             \* the setpoints the running tick has read so far
    pcTop,            \* where the __update_top_view_thread thread is
    pcMain,           \* where the caller's thread is
    arg_left,         \* set_motors_speeds: the left argument not stored yet
    set_result,       \* how the last set_motors_speeds call ended
    cam,              \* get_camera_view: what the call has read and computed
    cam_result,       \* what the last get_camera_view call returned or raised
    stored,           \* history: the (right, left) pairs accepted so far
    poses,            \* history: the pose each finished tick left
    run,              \* history: the tick-end positions of the straight run
    ticks             \* history: per tick, the wall clock at line 294 and its dt

robot == <<pos_x, pos_y, angle, speed_right, speed_left, thread_running>>
ctor == <<phase, map_ok, sprite_ok, top_view_enable>>
updater == <<pcInt, c, elapsed, actual_time_stamp, right_track_x, right_track_y,
             left_track_x, left_track_y, used>>
caller == <<pcMain, arg_left, set_result, cam, cam_result>>
history == <<stored, poses, run, ticks>>
vars == <<robot, ctor, updater, pcTop, caller, history>>

NoCam == [x |-> 0, y |-> 0, a1 |-> 0, a2 |-> 0, a3 |-> 0, cx |-> 0, cy |-> 0]

(***************************************************************************)
(* Robot.__init__, lines 209-233: the fields are assigned, the map is read *)
(* (cv2.imread returns None, and raises nothing, for a file it cannot      *)
(* read), and no thread exists yet.                                        *)
(***************************************************************************)
Init ==
    /\ phase = "init"
    /\ map_ok \in BOOLEAN
    /\ sprite_ok \in BOOLEAN
    /\ top_view_enable \in BOOLEAN
    /\ pos_x = DEFAULT_START_POS_X * MmPerCm
    /\ pos_y = DEFAULT_START_POS_Y * MmPerCm
    /\ angle \in StartAngles
    /\ speed_right = 0
    /\ speed_left = 0
    /\ thread_running = TRUE
    /\ pcInt = "unstarted"
    /\ c = 0
    /\ elapsed = 0
    /\ actual_time_stamp = 0
    /\ right_track_x = 0 /\ right_track_y = 0
    /\ left_track_x = 0 /\ left_track_y = 0
    /\ used = <<>>
    /\ pcTop = "unstarted"
    /\ pcMain = "idle"
    /\ arg_left = 0
    /\ set_result = "none"
    /\ cam = NoCam
    /\ cam_result = [status |-> "none", shape |-> <<0, 0>>]
    /\ stored = {<<speed_right, speed_left>>}
    /\ poses = {<<pos_x, pos_y, angle>>}
    /\ run = <<>>
    /\ ticks = <<>>

\* Robot.__init__, lines 235-263: __get_robot_image raises (cv2.resize of None)
\* when a sprite cannot be read; otherwise the threads are started
Robot_init ==
    /\ phase = "init"
    /\ IF sprite_ok
       THEN /\ phase' = "constructed"
            /\ pcTop' = IF top_view_enable THEN "while" ELSE "unstarted"
            /\ pcInt' = "setup"
       ELSE /\ phase' = "failed"
            /\ UNCHANGED <<pcTop, pcInt>>
    /\ UNCHANGED <<robot, map_ok, sprite_ok, top_view_enable, c, elapsed,
                   actual_time_stamp, right_track_x, right_track_y,
                   left_track_x, left_track_y, used, caller, history>>

\* Robot.__del__
Robot_del ==
    /\ phase = "constructed"
    /\ thread_running
    /\ thread_running' = FALSE
    /\ UNCHANGED <<pos_x, pos_y, angle, speed_right, speed_left, ctor, updater,
                   pcTop, caller, history>>

(***************************************************************************)
(* Robot.set_motors_speeds                                                 *)
(***************************************************************************)
\* the assert with the test of left forgotten
SpeedsInRange_RightOnly(right, left) ==
    -MaxMotorSpeed <= right /\ right <= MaxMotorSpeed

SpeedsInRange(right, left) ==
    /\ -MaxMotorSpeed <= right /\ right <= MaxMotorSpeed
    /\ -MaxMotorSpeed <= left /\ left <= MaxMotorSpeed

\* lines 90-96: the assert, then the store of the right setpoint
set_motors_speeds(right, left) ==
    /\ phase = "constructed"
    /\ pcMain = "idle"
    /\ IF SpeedsInRange(right, left)
       THEN /\ speed_right' = right
            /\ arg_left' = left
            /\ pcMain' = "set_left"
            /\ set_result' = "none"
            /\ stored' = stored \cup {<<right, left>>}
            /\ run' = <<>>
       ELSE /\ set_result' = "AssertionError"
            /\ UNCHANGED <<speed_right, arg_left, pcMain, stored, run>>
    /\ UNCHANGED <<pos_x, pos_y, angle, speed_left, thread_running, ctor,
                   updater, pcTop, cam, cam_result, poses, ticks>>

\* line 97: the store of the left setpoint
set_motors_speeds_left ==
    /\ pcMain = "set_left"
    /\ speed_left' = arg_left
    /\ arg_left' = 0
    /\ pcMain' = "idle"
    /\ set_result' = "ok"
    /\ UNCHANGED <<pos_x, pos_y, angle, speed_right, thread_running, ctor,
                   updater, pcTop, cam, cam_result, history>>


(***************************************************************************)
(* Robot.get_camera_view.  Each line of the source that reads the pose is  *)
(* one step; the integrator may run between them.                          *)
(***************************************************************************)
\* lines 104-108: the x of the camera's focal center, in pixels
get_camera_view ==
    /\ phase = "constructed"
    /\ pcMain = "idle"
    /\ cam' = [NoCam EXCEPT !.x = pos_x, !.a1 = angle,
                 !.cx = cm_to_pixel(vec_sum_x(pos_x, angle,
                                    DEFAULT_CAMERA_X_OFFSET * MmPerCm))]
    /\ cam_result' = [status |-> "none", shape |-> <<0, 0>>]
    /\ pcMain' = "center_y"
    /\ UNCHANGED <<robot, ctor, updater, pcTop, arg_left, set_result, history>>

\* lines 109-111: the y of the camera's focal center, in pixels
get_camera_view_center_y ==
    /\ pcMain = "center_y"
    /\ cam' = [cam EXCEPT !.y = pos_y, !.a2 = angle,
                 !.cy = cm_to_pixel(vec_sum_y(pos_y, angle,
                                    DEFAULT_CAMERA_X_OFFSET * MmPerCm))]
    /\ pcMain' = "theta"
    /\ UNCHANGED <<robot, ctor, updater, pcTop, arg_left, set_result,
                   cam_result, history>>

\* lines 127-137: the crop image[y : y + height, x : x + width] of the rotated
\* map and its resize; cv2.resize raises on an empty source image
CropAndResize(cx, cy) ==
    LET width == cm_to_pixel(DEFAULT_CAMERA_X_DIMENSION * MmPerCm)
        height == cm_to_pixel(DEFAULT_CAMERA_Y_DIMENSION * MmPerCm)
        x == TruncDiv(2 * cx - width, 2)
        y == TruncDiv(2 * cy - height, 2)
        rows == SliceLen(y, y + height, MapHeightPx)
        cols == SliceLen(x, x + width, MapWidthPx)
    IN  IF rows = 0 \/ cols = 0
        THEN [status |-> "cv2.error", shape |-> <<cols, rows>>]
        ELSE [status |-> "ok",
              shape |-> <<DEFAULT_OUTPUT_RESOLUTION_X, DEFAULT_OUTPUT_RESOLUTION_Y>>]

\* lines 113-139: theta, then image.shape (which raises on a map that is None),
\* the rotation, the crop and the resize
get_camera_view_theta ==
    /\ pcMain = "theta"
    /\ cam' = [cam EXCEPT !.a3 = angle]
    /\ cam_result' = IF map_ok
                     THEN CropAndResize(cam.cx, cam.cy)
                     ELSE [status |-> "AttributeError", shape |-> <<0, 0>>]
    /\ pcMain' = "idle"
    /\ UNCHANGED <<robot, ctor, updater, pcTop, arg_left, set_result, history>>


(***************************************************************************)
(* Robot.__position_updater, the pose integrator thread.  A step is one    *)
(* read of a setpoint or one write of a pose field, so that the caller's   *)
(* thread can run between them.                                            *)
(***************************************************************************)
tracks == <<right_track_x, right_track_y, left_track_x, left_track_y>>

\* lines 278-288: map.shape raises AttributeError on a map that is None
position_updater_setup ==
    /\ pcInt = "setup"
    /\ pcInt' = IF map_ok THEN "while" ELSE "raised"
    /\ c' = 0
    /\ elapsed' = 0
    /\ UNCHANGED <<robot, ctor, actual_time_stamp, tracks, used, pcTop, caller,
                   history>>

\* lines 292-313: c += 1, the averaged time step, and the middle points of the
\* two tracks
position_updater_tick ==
    /\ c < MaxTicks
    /\ c' = c + 1
    /\ actual_time_stamp' = TruncDiv(elapsed, c + 1)
    /\ right_track_x' = vec_sum_x(pos_x, angle - HalfPi,
                                  (DEFAULT_ROBOT_WIGHT * MmPerCm) \div 2)
    /\ right_track_y' = vec_sum_y(pos_y, angle - HalfPi,
                                  (DEFAULT_ROBOT_WIGHT * MmPerCm) \div 2)
    /\ left_track_x' = vec_sum_x(pos_x, angle + HalfPi,
                                 (DEFAULT_ROBOT_WIGHT * MmPerCm) \div 2)
    /\ left_track_y' = vec_sum_y(pos_y, angle + HalfPi,
                                 (DEFAULT_ROBOT_WIGHT * MmPerCm) \div 2)
    /\ pcInt' = "right_x"
    /\ ticks' = Append(ticks, [clock |-> elapsed, dt |-> actual_time_stamp'])

\* the loop with its test of the flag lost (while True)
position_updater_while_true ==
    /\ pcInt = "while"
    /\ position_updater_tick
    /\ UNCHANGED <<robot, ctor, elapsed, used, pcTop, caller, stored, poses,
                   run>>

\* line 290, while self.__thread_running: one more tick, or the thread returns
position_updater_while ==
    /\ pcInt = "while"
    /\ IF thread_running
       THEN position_updater_tick
       ELSE /\ pcInt' = "returned"
            /\ UNCHANGED <<c, actual_time_stamp, tracks, ticks>>
    /\ UNCHANGED <<robot, ctor, elapsed, used, pcTop, caller, stored, poses,
                   run>>

\* lines 316-320
position_updater_right_x ==
    /\ pcInt = "right_x"
    /\ right_track_x' = vec_sum_x(right_track_x, angle,
                                  Displacement(speed_right, actual_time_stamp))
    /\ used' = Append(used, speed_right)
    /\ pcInt' = "right_y"
    /\ UNCHANGED <<robot, ctor, c, elapsed, actual_time_stamp, right_track_y,
                   left_track_x, left_track_y, pcTop, caller, history>>

\* lines 321-325
position_updater_right_y ==
    /\ pcInt = "right_y"
    /\ right_track_y' = vec_sum_y(right_track_y, angle,
                                  Displacement(speed_right, actual_time_stamp))
    /\ used' = Append(used, speed_right)
    /\ pcInt' = "left_x"
    /\ UNCHANGED <<robot, ctor, c, elapsed, actual_time_stamp, right_track_x,
                   left_track_x, left_track_y, pcTop, caller, history>>

\* lines 326-330
position_updater_left_x ==
    /\ pcInt = "left_x"
    /\ left_track_x' = vec_sum_x(left_track_x, angle,
                                 Displacement(speed_left, actual_time_stamp))
    /\ used' = Append(used, speed_left)
    /\ pcInt' = "left_y"
    /\ UNCHANGED <<robot, ctor, c, elapsed, actual_time_stamp, right_track_x,
                   right_track_y, left_track_y, pcTop, caller, history>>

\* lines 331-335
position_updater_left_y ==
    /\ pcInt = "left_y"
    /\ left_track_y' = vec_sum_y(left_track_y, angle,
                                 Displacement(speed_left, actual_time_stamp))
    /\ used' = Append(used, speed_left)
    /\ pcInt' = "pos_x"
    /\ UNCHANGED <<robot, ctor, c, elapsed, actual_time_stamp, right_track_x,
                   right_track_y, left_track_x, pcTop, caller, history>>

\* line 338
position_updater_pos_x ==
    /\ pcInt = "pos_x"
    /\ pos_x' = TruncDiv(right_track_x + left_track_x, 2)
    /\ pcInt' = "pos_y"
    /\ UNCHANGED <<pos_y, angle, speed_right, speed_left, thread_running, ctor,
                   c, elapsed, actual_time_stamp, tracks, used, pcTop, caller,
                   history>>

\* line 339
position_updater_pos_y ==
    /\ pcInt = "pos_y"
    /\ pos_y' = TruncDiv(right_track_y + left_track_y, 2)
    /\ pcInt' = "angle"
    /\ UNCHANGED <<pos_x, angle, speed_right, speed_left, thread_running, ctor,
                   c, elapsed, actual_time_stamp, tracks, used, pcTop, caller,
                   history>>

\* lines 342-363
position_updater_angle ==
    /\ pcInt = "angle"
    /\ angle' = KeepInRange(NewAngle(right_track_x - left_track_x,
                                     right_track_y - left_track_y))
    /\ pcInt' = "clip_x"
    /\ UNCHANGED <<pos_x, pos_y, speed_right, speed_left, thread_running, ctor,
                   c, elapsed, actual_time_stamp, tracks, used, pcTop, caller,
                   history>>

\* line 366
position_updater_clip_x ==
    /\ pcInt = "clip_x"
    /\ pos_x' = np_clip(pos_x, min_pos_x, max_pos_x)
    /\ pcInt' = "clip_y"
    /\ UNCHANGED <<pos_y, angle, speed_right, speed_left, thread_running, ctor,
                   c, elapsed, actual_time_stamp, tracks, used, pcTop, caller,
                   history>>

\* the tick drove straight ahead: all four reads gave one positive setpoint
DroveStraight(reads) ==
    /\ Len(reads) = 4
    /\ reads[1] > 0
    /\ \A i \in 1..4 : reads[i] = reads[1]

\* line 367, which ends the tick's writes of the pose
position_updater_clip_y ==
    /\ pcInt = "clip_y"
    /\ pos_y' = np_clip(pos_y, min_pos_y, max_pos_y)
    /\ pcInt' = "sleep"
    /\ poses' = poses \cup {<<pos_x, pos_y', angle>>}
    /\ run' = IF DroveStraight(used) THEN Append(run, <<pos_x, pos_y'>>) ELSE <<>>
    /\ UNCHANGED <<pos_x, angle, speed_right, speed_left, thread_running, ctor,
                   c, elapsed, actual_time_stamp, tracks, used, pcTop, caller,
                   stored, ticks>>

\* lines 369-377: the sleep of what is left of the time step, or none and a
\* warning; the wall clock has advanced by duration when the next pass begins
position_updater_sleep(duration) ==
    /\ pcInt = "sleep"
    /\ elapsed' = elapsed + duration
    /\ used' = <<>>
    /\ right_track_x' = 0 /\ right_track_y' = 0
    /\ left_track_x' = 0 /\ left_track_y' = 0
    /\ pcInt' = "while"
    /\ UNCHANGED <<robot, ctor, c, actual_time_stamp, pcTop, caller, history>>

position_updater ==
    \/ position_updater_setup
    \/ position_updater_while
    \/ position_updater_right_x
    \/ position_updater_right_y
    \/ position_updater_left_x
    \/ position_updater_left_y
    \/ position_updater_pos_x
    \/ position_updater_pos_y
    \/ position_updater_angle
    \/ position_updater_clip_x
    \/ position_updater_clip_y
    \/ \E duration \in TickDurations : position_updater_sleep(duration)

(***************************************************************************)
(* Robot.__update_top_view_thread                                          *)
(***************************************************************************)
\* line 381: the loop's test
update_top_view_thread_while ==
    /\ pcTop = "while"
    /\ pcTop' = IF thread_running THEN "update" ELSE "returned"
    /\ UNCHANGED <<robot, ctor, updater, caller, history>>

\* line 382, update_top_view (lines 385-440): reads the pose and the map and
\* hands a frame to the display; pasting onto a map that is None raises
update_top_view ==
    /\ pcTop = "update"
    /\ pcTop' = IF map_ok THEN "while" ELSE "raised"
    /\ UNCHANGED <<robot, ctor, updater, caller, history>>

update_top_view_thread == update_top_view_thread_while \/ update_top_view

Next ==
    \/ Robot_init
    \/ Robot_del
    \/ \E right \in SpeedArgs, left \in SpeedArgs : set_motors_speeds(right, left)
    \/ set_motors_speeds_left
    \/ get_camera_view
    \/ get_camera_view_center_y
    \/ get_camera_view_theta
    \/ position_updater
    \/ update_top_view_thread

Spec == Init /\ [][Next]_vars

(***************************************************************************)
(* The setpoints: the caller calls set_motors_speeds with every argument   *)
(* of SpeedArgs while the integrator runs.                                 *)
(***************************************************************************)
InitMotors ==
    /\ Init
    /\ map_ok /\ sprite_ok /\ ~top_view_enable
    /\ angle = DEFAULT_START_ANGLE

NextMotors ==
    \/ Robot_init
    \/ \E right \in SpeedArgs, left \in SpeedArgs : set_motors_speeds(right, left)
    \/ set_motors_speeds_left
    \/ position_updater

SpecMotors == InitMotors /\ [][NextMotors]_vars

InMotorRange(v) == -MaxMotorSpeed <= v /\ v <= MaxMotorSpeed

SetpointsInRange ==
    /\ InMotorRange(speed_right)
    /\ InMotorRange(speed_left)
    /\ \A i \in 1..Len(used) : InMotorRange(used[i])

RejectedCallChangesNothing ==
    \A right \in SpeedArgs, left \in SpeedArgs :
        (set_motors_speeds(right, left)
            /\ ~(InMotorRange(right) /\ InMotorRange(left)))
        => (set_result' = "AssertionError"
            /\ UNCHANGED <<speed_right, speed_left>>)

C10_TickUsesOneStoredPair ==
    /\ Len(used) >= 2 => used[1] = used[2]
    /\ Len(used) = 4 => (used[3] = used[4] /\ <<used[1], used[3]>> \in stored)


(***************************************************************************)
(* The camera: the caller drives the robot and calls get_camera_view while *)
(* the integrator runs.                                                    *)
(***************************************************************************)
\* the calls of set_motors_speeds the caller makes: straight ahead, and a
\* turn on the left track
CameraCalls == {<<MaxMotorSpeed, MaxMotorSpeed>>, <<MaxMotorSpeed, 0>>}

\* the start pose of the source's test(): heading 0
InitCamera ==
    /\ Init
    /\ map_ok /\ sprite_ok /\ ~top_view_enable
    /\ angle = 0

NextCamera ==
    \/ Robot_init
    \/ \E call \in CameraCalls : set_motors_speeds(call[1], call[2])
    \/ set_motors_speeds_left
    \/ get_camera_view
    \/ get_camera_view_center_y
    \/ get_camera_view_theta
    \/ position_updater

SpecCamera == InitCamera /\ [][NextCamera]_vars

InsideMap(x, y) ==
    /\ min_pos_x <= x /\ x <= max_pos_x
    /\ min_pos_y <= y /\ y <= max_pos_y

\* the finished call of get_camera_view read one pose that a tick (or the
\* constructor) left, a position inside the map
CameraReadOnePose ==
    /\ pcMain = "idle"
    /\ cam_result.status # "none"
    /\ cam.a1 = cam.a2
    /\ cam.a2 = cam.a3
    /\ <<cam.x, cam.y, cam.a1>> \in poses

\* C2: for every pose the simulation reaches (every position inside the map,
\* the edges too, and every heading), get_camera_view raises nothing and
\* returns an image of exactly (output_resolution_x, output_resolution_y),
\* also when the crop rectangle starts at a negative index or passes the
\* rotated image's end.
C2_CameraViewNeverFails ==
    CameraReadOnePose =>
        /\ cam_result.status = "ok"
        /\ cam_result.shape = <<DEFAULT_OUTPUT_RESOLUTION_X,
                                DEFAULT_OUTPUT_RESOLUTION_Y>>

\* C4: the stored position is inside [0, map_width_cm] x [0, map_height_cm]
\* in every state, and so is every position get_camera_view reads while the
\* integrator runs.
C4_PositionInsideMap ==
    /\ InsideMap(pos_x, pos_y)
    /\ pcMain \in {"center_y", "theta"} => min_pos_x <= cam.x /\ cam.x <= max_pos_x
    /\ pcMain = "theta" => min_pos_y <= cam.y /\ cam.y <= max_pos_y

\* C9: a call of get_camera_view computes from one pose: the pos_x, pos_y and
\* the three readings of the heading it used are those of the pose one tick
\* (or the constructor) left, clamped.
C9_CameraUsesOnePose ==
    (pcMain = "idle" /\ cam_result.status # "none") =>
        /\ cam.a1 = cam.a2
        /\ cam.a2 = cam.a3
        /\ <<cam.x, cam.y, cam.a1>> \in poses


(***************************************************************************)
(* The life cycle: every outcome of loading the map and the sprites, the   *)
(* top view on and off, the threads, and __del__.                          *)
(***************************************************************************)
\* the call of the source's test(): a turn on the left track
LifeCalls == {<<0, MaxMotorSpeed>>}

NextLife ==
    \/ Robot_init
    \/ Robot_del
    \/ \E call \in LifeCalls : set_motors_speeds(call[1], call[2])
    \/ set_motors_speeds_left
    \/ position_updater
    \/ update_top_view_thread

\* the start pose of the source's test(): heading 0
InitLife == Init /\ angle = 0

SpecLife == InitLife /\ [][NextLife]_vars

\* the scheduler runs each thread that can run
FairSpecLife ==
    /\ SpecLife
    /\ WF_vars(position_updater)
    /\ WF_vars(update_top_view_thread)

\* C6: when the map or a sprite cannot be loaded, construction fails before a
\* thread is started: no state has a failed load and a started thread.
C6_NoThreadAfterFailedLoad ==
    (~map_ok \/ ~sprite_ok) => (pcInt = "unstarted" /\ pcTop = "unstarted")

UpdaterEnded == pcInt \in {"returned", "raised"}
TopViewEnded == pcTop \in {"unstarted", "returned", "raised"}
pose == <<pos_x, pos_y, angle>>

\* C5 as claimed: once thread_running is false the pose is never modified
\* again (and the loops end without another tick).
C5_PoseFrozenOnceStopped ==
    [][~thread_running => (pose' = pose /\ c' = c /\ ~thread_running')]_vars

\* C5 as amended: once thread_running is false it stays false, no tick begins
\* (c counts the ticks begun), the pose is written only by what is left of a
\* tick begun before the stop and never once the integrator has ended, and
\* under fair scheduling both threads end.
C5_StopEndsBothThreads ==
    /\ [][~thread_running =>
            /\ ~thread_running'
            /\ c' = c
            /\ pose' # pose => (pcInt \notin {"while", "returned", "raised"}
                                /\ pcInt' # "right_x")]_vars
    /\ [][UpdaterEnded => (pose' = pose /\ pcInt' = pcInt)]_vars
    /\ (~thread_running ~> (UpdaterEnded /\ TopViewEnded))

\* the stop was given in the middle of a tick, which then wrote the pose, and
\* both threads have returned
C5_Witness ==
    /\ ~thread_running
    /\ pcInt = "returned"
    /\ pcTop = "returned"
    /\ c > 0
    /\ angle # 0
    /\ pos_y # DEFAULT_START_POS_Y * MmPerCm


(***************************************************************************)
(* Driving straight: the caller sets both motors to full speed, from every *)
(* start heading, and the integrator runs.                                 *)
(***************************************************************************)
StraightCalls == {<<MaxMotorSpeed, MaxMotorSpeed>>}

InitStraight ==
    /\ Init
    /\ map_ok /\ sprite_ok /\ ~top_view_enable

NextStraight ==
    \/ Robot_init
    \/ \E call \in StraightCalls : set_motors_speeds(call[1], call[2])
    \/ set_motors_speeds_left
    \/ position_updater

SpecStraight == InitStraight /\ [][NextStraight]_vars

\* C3: the heading is in [0, 2*pi) in every state of the constructed robot:
\* the one the constructor stores from start_angle (the default too) and the
\* one every tick stores.
C3_HeadingNormalized ==
    phase = "constructed" => (0 <= angle /\ angle < TwoPi)

\* C7: a tick that reads equal setpoints (right == left) leaves the heading
\* as it was, from every heading in [0, 2*pi), also one at which the two
\* track points have the same x (delta_x = 0).
C7_StraightKeepsHeading ==
    [][(/\ pcInt = "angle"
        /\ pcInt' = "clip_x"
        /\ Len(used) = 4
        /\ \A i \in 1..4 : used[i] = used[1]
        /\ 0 <= angle /\ angle < TwoPi)
       => angle' = angle]_vars

\* a coordinate's values at the ends of consecutive ticks never turn back
NoReversal(coord) ==
    \A i \in 1..Len(run) :
        i + 2 <= Len(run) =>
            /\ ~(run[i][coord] < run[i+1][coord] /\ run[i+1][coord] > run[i+2][coord])
            /\ ~(run[i][coord] > run[i+1][coord] /\ run[i+1][coord] < run[i+2][coord])

\* C8: while the robot drives straight (right == left > 0, setpoints not
\* changed) the position at the end of each tick is inside the map and never
\* moves back away from the edge it is driving to: a coordinate that has
\* reached its clamped boundary value keeps it.
C8_StraightRunReachesEdgeAndStays ==
    /\ \A i \in 1..Len(run) : InsideMap(run[i][1], run[i][2])
    /\ NoReversal(1)
    /\ NoReversal(2)

(***************************************************************************)
(* The time step: the integrator runs with the time step the constructor   *)
(* was given, and a pass of its loop takes either that step (line 376, the *)
(* rest of the step is slept) or longer (lines 370-374, the warning).      *)
(***************************************************************************)
\* the simulation_time_step argument (ms)
simulation_time_step == 850

\* the wall-clock time of a pass that slept and of a pass that overran
TimingDurations == {simulation_time_step, 2 * simulation_time_step}

TimingCalls == {<<MaxMotorSpeed, MaxMotorSpeed>>}

InitTiming ==
    /\ Init
    /\ map_ok /\ sprite_ok /\ ~top_view_enable
    /\ angle = 0

NextTiming ==
    \/ Robot_init
    \/ \E call \in TimingCalls : set_motors_speeds(call[1], call[2])
    \/ set_motors_speeds_left
    \/ position_updater_setup
    \/ position_updater_while
    \/ position_updater_right_x
    \/ position_updater_right_y
    \/ position_updater_left_x
    \/ position_updater_left_y
    \/ position_updater_pos_x
    \/ position_updater_pos_y
    \/ position_updater_angle
    \/ position_updater_clip_x
    \/ position_updater_clip_y
    \/ \E duration \in TimingDurations : position_updater_sleep(duration)

SpecTiming == InitTiming /\ [][NextTiming]_vars

\* the wall-clock time between line 294 of tick i and line 294 of the tick
\* before it (for the first tick: since input_time, line 286)
SincePreviousTick(i) ==
    ticks[i].clock - (IF i = 1 THEN 0 ELSE ticks[i - 1].clock)

RECURSIVE SumDt(_)
SumDt(n) == IF n = 0 THEN 0 ELSE SumDt(n - 1) + ticks[n].dt

\* C11: the dt every tick integrates with is the wall-clock time since the
\* previous tick, whatever the passes of the loop took (a pass that overran
\* the time step included), so the dt values of the ticks so far add up to
\* the wall-clock time that passed over them.
C11_DtIsTimeSincePreviousTick ==
    /\ \A i \in 1..Len(ticks) : ticks[i].dt = SincePreviousTick(i)
    /\ Len(ticks) > 0 => SumDt(Len(ticks)) = ticks[Len(ticks)].clock

====
